---- MODULE Spec2Model ----
(***************************************************************************)
(* A model of the research-tool CLI (index.js), of the retry helper and    *)
(* completion client (src/services/llmClient.js) and of the HTTP analysis  *)
(* handlers (src/controllers/analysisController.js).                       *)
(*                                                                         *)
(* Each program is a specification of its own over the same variables:     *)
(* SpecReview (generateReview and the calls it makes), SpecCli (main),     *)
(* SpecSearch (one call of searchPapers, with fairness), SpecRetry         *)
(* (retryWithBackoff) and SpecHttp (the two handlers).                     *)
(***************************************************************************)
EXTENDS Integers, Sequences, FiniteSets, TLC

\* ------------------------------------------------------------------ bounds

\* The largest limit generateReview is called with.
MaxLimit == 2

\* The longest keyword text (in tokens) the completion model answers with.
MaxKwText == 3

\* The most consecutive 429 answers the search provider gives to one call of
\* a generateReview or main run, and the most retries SpecSearch counts.
MaxRateLimits == 2

\* ------------------------------------------------- index.js: data and helpers

\* The abstract of a Document that has none (undefined / null in the response).
Absent == "<undefined>"

\* The Documents the search provider knows: one with an abstract, one with an
\* empty abstract, one with no abstract at all.
Corpus ==
  { [title |-> "T1", authors |-> <<"a", "b">>, url |-> "U1", abstract |-> "A1"],
    [title |-> "T2", authors |-> <<"c">>, url |-> "U2", abstract |-> ""],
    [title |-> "T3", authors |-> << >>, url |-> "U3", abstract |-> Absent] }

\* The topics, as texts of tokens (a keyword of devilAdvocate may be the topic).
Topics == { <<"g", "d">>, <<"k">> }

\* The SearchResults of at most n Documents (res.data.data).
SearchResults(n) == UNION { [1..m -> Corpus] : m \in 0..n }

\* JavaScript truthiness of p.abstract: undefined, null and '' are falsy.
Truthy(a) == a # Absent /\ a # ""

\* p.abstract || ''
AbstractOrEmpty(p) == IF Truthy(p.abstract) THEN p.abstract ELSE ""

\* A variant that drops the empty entries:
\* papers.map(p => p.abstract || '').filter(a => a)
AbstractsNonEmpty(ps) ==
  SelectSeq([j \in 1..Len(ps) |-> AbstractOrEmpty(ps[j])], LAMBDA a : a # "")

\* papers.map(p => p.abstract || '')
Abstracts(ps) == [j \in 1..Len(ps) |-> AbstractOrEmpty(ps[j])]

\* The placeholder of a Document without abstract.
NoAbstract == "No abstract available."

\* What the completion model answers to a summarize or a gaps prompt.
ChatTexts == {"model text"}

\* The tokens of a keyword answer: "," is a match of the separator /,\s*/ (a
\* comma with the white space after it), "k" any other character.
KwTokens == {"k", ","}

KwTexts == UNION { [1..m -> KwTokens] : m \in 0..MaxKwText }

\* kwText.split(/,\s*/): the pieces between the separators; a text without
\* separator, the empty text included, is one piece.
RECURSIVE Split(_)
Split(t) ==
  IF \A j \in 1..Len(t) : t[j] # ","
  THEN << t >>
  ELSE LET c == CHOOSE j \in 1..Len(t) :
                   t[j] = "," /\ \A h \in 1..(j - 1) : t[h] # ","
       IN  << SubSeq(t, 1, c - 1) >> \o Split(SubSeq(t, c + 1, Len(t)))

\* a.slice(0, n)
Slice(a, n) == SubSeq(a, 1, IF Len(a) < n THEN Len(a) ELSE n)

\* The limit devilAdvocate is called with by generateReview.
OpposingLimit == 3

\* The limit of each keyword search.
KeywordSearchLimit == 1

\* The delay before a rate-limited search is issued again, in milliseconds.
SearchDelay == 5000

\* The default limit of searchPapers and getCitations.
DefaultLimit == 5

\* ------------------------------------------------------------ index.js: state

VARIABLES
  action,       \* the entry point: a CLI subcommand, or "generateReview"
  topic,        \* the topic (rest.join(' '))
  limit,        \* the limit generateReview was called with
  pc,           \* where the running call chain is suspended
  papers,       \* generateReview: the SearchResult of the initial search
  i,            \* generateReview: the index of the Document being summarized
  report,       \* generateReview: the Report accumulated so far
  keywords,     \* devilAdvocate: the keywords
  k,            \* devilAdvocate: the index of the keyword being searched
  found,        \* devilAdvocate: papers
  sp,           \* the running searchPapers call, with what happened in it
  chat,         \* the running openRouterChat call
  searchCalls,  \* every call of searchPapers by another function, in order,
                \* with the SearchResult it returned
  chatCalls,    \* every call of openRouterChat, in order
  outcome,      \* what the entry point's promise settled with
  stdout,       \* what main printed with console.log
  stderr,       \* what main printed with console.error
  exitCode      \* the exit code of the process, -1 while it runs

cliVars == << action, topic, limit, pc, papers, i, report, keywords, k, found,
              sp, chat, searchCalls, chatCalls, outcome, stdout, stderr, exitCode >>

\* ------------------------------------------------ retryWithBackoff: state

VARIABLES
  rFn,          \* the operation fn: "operation" (its failures carry their
                \* status) or "analyze" (() => analyzeFinancialData(data))
  rMax,         \* maxRetries
  rAttempt,     \* attempt
  rState,       \* where retryWithBackoff is: start, calling, waiting,
                \* returned, thrown
  rPending,     \* the delay of the running timer, in milliseconds
  rOutcomes,    \* how each invocation of fn ended, in order
  rInvocations, \* how often fn was invoked
  rAnswers,     \* what the completion provider answered to each call, in order
  rDelays,      \* the delays waited, in milliseconds, in order
  rResult       \* what retryWithBackoff returned or threw

retryVars == << rFn, rMax, rAttempt, rState, rPending, rOutcomes, rInvocations,
                rAnswers, rDelays, rResult >>

\* ---------------------------------------------- analysisController: state

VARIABLES
  handler,      \* "analyzeFinancialData" (POST /analyze) or "analyzeFile"
  req,          \* the request, and what the parser and the validator make of it
  nodeEnv,      \* process.env.NODE_ENV
  hpc,          \* where the handler is: start, analysis, done
  responses,    \* the responses sent with res.json, in order
  answers,      \* what the completion provider answered to each call, in order
  completions,  \* how often openai.chat.completions.create was called
  fileExists    \* whether the uploaded temporary file exists

httpVars == << handler, req, nodeEnv, hpc, responses, answers, completions,
               fileExists >>

vars == << cliVars, retryVars, httpVars >>

\* The CLI does not run.
CliOff ==
  /\ action = "none" /\ topic = << >> /\ limit = 0 /\ pc = "off"
  /\ papers = << >> /\ i = 0 /\ report = << >>
  /\ keywords = << >> /\ k = 0 /\ found = << >>
  /\ sp = [state |-> "none"] /\ chat = [state |-> "none"]
  /\ searchCalls = << >> /\ chatCalls = << >>
  /\ outcome = [kind |-> "pending"]
  /\ stdout = << >> /\ stderr = << >> /\ exitCode = -1

\* retryWithBackoff does not run.
RetryOff ==
  /\ rFn = "none" /\ rMax = 0 /\ rAttempt = 0 /\ rState = "off" /\ rPending = 0
  /\ rOutcomes = << >> /\ rInvocations = 0 /\ rAnswers = << >>
  /\ rDelays = << >> /\ rResult = [kind |-> "pending"]

\* No request is handled.
HttpOff ==
  /\ handler = "none" /\ req = [kind |-> "none"] /\ nodeEnv = "development"
  /\ hpc = "off" /\ responses = << >> /\ answers = << >> /\ completions = 0
  /\ fileExists = FALSE

NoSearch == [state |-> "none", query |-> << >>, limit |-> 0, errors |-> << >>,
             delays |-> << >>, requests |-> << >>, result |-> << >>]

NoChat == [state |-> "none", fn |-> "", arg |-> << >>, result |-> << >>]

NoError == [source |-> "none", hasResponse |-> FALSE, status |-> 0]

NoOutcome == [kind |-> "pending", val |-> << >>, err |-> NoError]

\* The failures of a GET of the search provider: an HTTP status, or no
\* response at all (a network error).
SearchErrors ==
  { [source |-> "search", hasResponse |-> TRUE, status |-> 429],
    [source |-> "search", hasResponse |-> TRUE, status |-> 404],
    [source |-> "search", hasResponse |-> TRUE, status |-> 500],
    [source |-> "search", hasResponse |-> FALSE, status |-> 0] }

\* The failures of openRouterChat: an HTTP status, no response at all, or a
\* response without choices[0].message.content (a TypeError).
ChatErrors ==
  { [source |-> "chat", hasResponse |-> TRUE, status |-> 401],
    [source |-> "chat", hasResponse |-> TRUE, status |-> 429],
    [source |-> "chat", hasResponse |-> TRUE, status |-> 500],
    [source |-> "chat", hasResponse |-> FALSE, status |-> 0],
    [source |-> "TypeError", hasResponse |-> FALSE, status |-> 0] }

\* A variant that takes every status from 429 up for the rate-limit signal.
IsRateLimitOrAbove(err) == err.hasResponse /\ err.status >= 429

\* err.response && err.response.status === 429
IsRateLimit(err) == err.hasResponse /\ err.status = 429

\* searchPapers(query, limit) called by `caller`: the GET is issued.
CallSearch(caller, query, lim) ==
  /\ sp' = [state |-> "request", query |-> query, limit |-> lim,
            errors |-> << >>, delays |-> << >>,
            requests |-> << [query |-> query, limit |-> lim] >>,
            result |-> << >>]
  /\ searchCalls' = Append(searchCalls,
                           [caller |-> caller, query |-> query, limit |-> lim,
                            returned |-> FALSE, result |-> << >>])

\* openRouterChat called by the stage function fn with the text it was given.
CallChat(fn, arg) ==
  /\ chat' = [state |-> "request", fn |-> fn, arg |-> arg, result |-> << >>]
  /\ chatCalls' = Append(chatCalls, [fn |-> fn, arg |-> arg, returned |-> FALSE,
                                     result |-> << >>])

\* The entry point's promise rejects with err.
Reject(err) ==
  /\ pc' = "failed"
  /\ outcome' = [kind |-> "error", val |-> << >>, err |-> err]

\* The entry point's promise resolves with v.
Resolve(v) ==
  /\ pc' = "done"
  /\ outcome' = [kind |-> "value", val |-> v, err |-> NoError]

Min(a, b) == IF a < b THEN a ELSE b

\* ------------------------------------------------------ index.js: searchPapers

\* A variant that retries with searchPapers(query), dropping the limit.
RetryRequestDefaultLimit(s) == [query |-> s.query, limit |-> DefaultLimit]

\* The request the retry of a rate-limited search issues: searchPapers(query, limit).
RetryRequest(s) == [query |-> s.query, limit |-> s.limit]

\* The GET fails. A 429 answer is waited out (the timer of SearchDelay is
\* started); every other failure is thrown to the caller, and none of the
\* callers catches it.
SearchFails(err) ==
  /\ sp.state = "request"
  /\ IF IsRateLimit(err)
     THEN /\ Len(sp.errors) < MaxRateLimits
          /\ sp' = [sp EXCEPT !.state = "delay", !.errors = Append(@, err)]
          /\ UNCHANGED << pc, outcome >>
     ELSE /\ sp' = [sp EXCEPT !.state = "thrown", !.errors = Append(@, err)]
          /\ Reject(err)
  /\ UNCHANGED << retryVars, httpVars >>
  /\ UNCHANGED << action, topic, limit, papers, i, report, keywords, k, found,
                  chat, searchCalls, chatCalls, stdout, stderr, exitCode >>

\* The timer fires: searchPapers calls itself, which issues the GET again.
SearchRetry ==
  /\ sp.state = "delay"
  /\ sp' = [sp EXCEPT !.state = "request",
                      !.delays = Append(@, SearchDelay),
                      !.requests = Append(@, RetryRequest(sp))]
  /\ UNCHANGED << retryVars, httpVars >>
  /\ UNCHANGED << action, topic, limit, pc, papers, i, report, keywords, k, found,
                  chat, searchCalls, chatCalls, outcome, stdout, stderr, exitCode >>

\* The GET succeeds: searchPapers returns res.data.data.
SearchSucceeds(docs) ==
  /\ sp.state = "request"
  /\ sp' = [sp EXCEPT !.state = "returned", !.result = docs]
  /\ searchCalls' = [searchCalls EXCEPT ![Len(searchCalls)] =
                        [@ EXCEPT !.returned = TRUE, !.result = docs]]
  /\ UNCHANGED << retryVars, httpVars >>
  /\ UNCHANGED << action, topic, limit, pc, papers, i, report, keywords, k, found,
                  chat, chatCalls, outcome, stdout, stderr, exitCode >>

\* ---------------------------------------------------- index.js: openRouterChat

\* What the model may answer to the prompt of fn.
ChatAnswers(fn) == IF fn = "devilAdvocate" THEN KwTexts ELSE ChatTexts

\* The POST succeeds: openRouterChat returns the trimmed content.
ChatSucceeds(text) ==
  /\ chat.state = "request"
  /\ chat' = [chat EXCEPT !.state = "returned", !.result = text]
  /\ chatCalls' = [chatCalls EXCEPT ![Len(chatCalls)].returned = TRUE,
                                    ![Len(chatCalls)].result = text]
  /\ UNCHANGED << retryVars, httpVars >>
  /\ UNCHANGED << action, topic, limit, pc, papers, i, report, keywords, k, found,
                  sp, searchCalls, outcome, stdout, stderr, exitCode >>

\* A variant in which generateReview catches the failure of a completion and
\* returns the Report accumulated so far.
ChatFailsReturningPartial(err) ==
  /\ chat.state = "request"
  /\ chat' = [chat EXCEPT !.state = "thrown"]
  /\ Resolve(report)
  /\ UNCHANGED << retryVars, httpVars >>
  /\ UNCHANGED << action, topic, limit, papers, i, report, keywords, k, found,
                  sp, searchCalls, chatCalls, stdout, stderr, exitCode >>

\* The POST fails: the failure is thrown through the stage function to the
\* entry point; nothing on the way catches it.
ChatFails(err) ==
  /\ chat.state = "request"
  /\ chat' = [chat EXCEPT !.state = "thrown"]
  /\ Reject(err)
  /\ UNCHANGED << retryVars, httpVars >>
  /\ UNCHANGED << action, topic, limit, papers, i, report, keywords, k, found,
                  sp, searchCalls, chatCalls, stdout, stderr, exitCode >>

\* ---------------------------------------------------- index.js: generateReview

\* A variant that tests p.abstract !== undefined, so that '' is summarized.
NeedsSummaryIfDefined(p) == p.abstract # Absent

\* p.abstract ? await summarizeAbstract(p.abstract) : 'No abstract available.'
NeedsSummary(p) == Truthy(p.abstract)

\* A variant that cites a Document no search returned: the url is printed as
\* the title and the title as the url.
SummarySectionSwapped(p, summary) ==
  [kind |-> "paper", title |-> p.url, authors |-> p.authors, url |-> p.title,
   summary |-> summary]

\* The section of Document p: title, authors, url and summary.
SummarySection(p, summary) ==
  [kind |-> "paper", title |-> p.title, authors |-> p.authors, url |-> p.url,
   summary |-> summary]

\* The first line of the Report.
TitleSection(t) == [kind |-> "title", topic |-> t]

GapsSection(gaps) == [kind |-> "gaps", text |-> gaps]

\* '# Opposing Viewpoints' and one line, title and url, per found Document.
OpposingSection(ops) ==
  [kind |-> "opposing",
   entries |-> [j \in 1..Len(ops) |-> [title |-> ops[j].title, url |-> ops[j].url]]]

\* generateReview(topic, limit) is called: it calls searchPapers(topic, limit).
GenerateReviewCall ==
  /\ pc = "start"
  /\ action \in {"generateReview", "review"}
  /\ CallSearch("generateReview", topic, limit)
  /\ pc' = "search"
  /\ UNCHANGED << retryVars, httpVars >>
  /\ UNCHANGED << action, topic, limit, papers, i, report, keywords, k, found,
                  chat, chatCalls, outcome, stdout, stderr, exitCode >>

\* The initial search returned: the Report is started.
ReviewSearchReturn ==
  /\ pc = "search"
  /\ sp.state = "returned"
  /\ papers' = sp.result
  /\ report' = << TitleSection(topic) >>
  /\ i' = 1
  /\ pc' = "summarize"
  /\ sp' = NoSearch
  /\ UNCHANGED << retryVars, httpVars >>
  /\ UNCHANGED << action, topic, limit, keywords, k, found, chat, searchCalls,
                  chatCalls, outcome, stdout, stderr, exitCode >>

\* A variant of the loop that skips a Document without abstract.
SummarizeStepSkipping ==
  /\ pc = "summarize"
  /\ chat.state = "none"
  /\ i <= Len(papers)
  /\ IF Truthy(papers[i].abstract)
     THEN /\ chat' = [state |-> "request", fn |-> "summarizeAbstract",
                      arg |-> << papers[i].abstract >>, result |-> << >>]
          /\ chatCalls' = Append(chatCalls, [fn |-> "summarizeAbstract",
                                             arg |-> << papers[i].abstract >>,
                                             returned |-> FALSE, result |-> << >>])
          /\ UNCHANGED << report, i >>
     ELSE /\ i' = i + 1
          /\ UNCHANGED << report, chat, chatCalls >>
  /\ UNCHANGED << retryVars, httpVars >>
  /\ UNCHANGED << action, topic, limit, pc, papers, keywords, k, found, sp,
                  searchCalls, outcome, stdout, stderr, exitCode >>

\* One turn of the loop over papers, up to its await or its end.
SummarizeStep ==
  /\ pc = "summarize"
  /\ chat.state = "none"
  /\ i <= Len(papers)
  /\ IF NeedsSummary(papers[i])
     THEN /\ CallChat("summarizeAbstract", << papers[i].abstract >>)
          /\ UNCHANGED << report, i >>
     ELSE /\ report' = Append(report, SummarySection(papers[i], NoAbstract))
          /\ i' = i + 1
          /\ UNCHANGED << chat, chatCalls >>
  /\ UNCHANGED << retryVars, httpVars >>
  /\ UNCHANGED << action, topic, limit, pc, papers, keywords, k, found, sp,
                  searchCalls, outcome, stdout, stderr, exitCode >>

\* summarizeAbstract returned: the section of papers[i] is appended.
SummarizeReturn ==
  /\ pc = "summarize"
  /\ chat.state = "returned"
  /\ report' = Append(report, SummarySection(papers[i], chat.result))
  /\ i' = i + 1
  /\ chat' = NoChat
  /\ UNCHANGED << retryVars, httpVars >>
  /\ UNCHANGED << action, topic, limit, pc, papers, keywords, k, found, sp,
                  searchCalls, chatCalls, outcome, stdout, stderr, exitCode >>

\* The loop is over: discoverGaps(abstracts) is called.
GapsCall ==
  /\ pc = "summarize"
  /\ chat.state = "none"
  /\ i > Len(papers)
  /\ CallChat("discoverGaps", Abstracts(papers))
  /\ pc' = "gaps"
  /\ UNCHANGED << retryVars, httpVars >>
  /\ UNCHANGED << action, topic, limit, papers, i, report, keywords, k, found, sp,
                  searchCalls, outcome, stdout, stderr, exitCode >>

\* discoverGaps returned: the gaps are appended and devilAdvocate(topic, 3) is
\* called, which asks the model for keywords.
GapsReturn ==
  /\ pc = "gaps"
  /\ chat.state = "returned"
  /\ report' = Append(report, GapsSection(chat.result))
  /\ CallChat("devilAdvocate", topic)
  /\ pc' = "keywords"
  /\ UNCHANGED << retryVars, httpVars >>
  /\ UNCHANGED << action, topic, limit, papers, i, keywords, k, found, sp,
                  searchCalls, outcome, stdout, stderr, exitCode >>

\* ----------------------------------------------------- index.js: devilAdvocate

\* A variant without the slice: every piece of the text is a keyword.
KeywordsOfUnsliced(kwText, lim) == Split(kwText)

\* kwText.split(/,\s*/).slice(0, limit)
KeywordsOf(kwText, lim) == Slice(Split(kwText), lim)

\* A variant that puts the Document found at the front: papers.unshift(found[0])
PushedFront(ps, res) == IF Len(res) > 0 THEN << res[1] >> \o ps ELSE ps

\* if (found.length) papers.push(found[0])
Pushed(ps, res) == IF Len(res) > 0 THEN Append(ps, res[1]) ELSE ps

\* The keyword text arrived: it is split and truncated.
KeywordsReturn ==
  /\ pc = "keywords"
  /\ chat.state = "returned"
  /\ keywords' = KeywordsOf(chat.result, OpposingLimit)
  /\ found' = << >>
  /\ k' = 1
  /\ chat' = NoChat
  /\ pc' = "opposing"
  /\ UNCHANGED << retryVars, httpVars >>
  /\ UNCHANGED << action, topic, limit, papers, i, report, sp, searchCalls,
                  chatCalls, outcome, stdout, stderr, exitCode >>

\* A variant that starts the keyword searches without awaiting each one:
\* keywords.map(kw => searchPapers(kw, 1))
OpposingSearchAll ==
  /\ pc = "opposing"
  /\ sp.state \in {"none", "request"}
  /\ k <= Len(keywords)
  /\ CallSearch("devilAdvocate", keywords[k], KeywordSearchLimit)
  /\ k' = k + 1
  /\ UNCHANGED << retryVars, httpVars >>
  /\ UNCHANGED << action, topic, limit, pc, papers, i, report, keywords, found,
                  chat, chatCalls, outcome, stdout, stderr, exitCode >>

\* One turn of the loop over keywords: searchPapers(kw, 1).
OpposingSearch ==
  /\ pc = "opposing"
  /\ sp.state = "none"
  /\ k <= Len(keywords)
  /\ CallSearch("devilAdvocate", keywords[k], KeywordSearchLimit)
  /\ UNCHANGED << retryVars, httpVars >>
  /\ UNCHANGED << action, topic, limit, pc, papers, i, report, keywords, k, found,
                  chat, chatCalls, outcome, stdout, stderr, exitCode >>

\* The keyword search returned: its first Document, if any, is kept.
OpposingReturn ==
  /\ pc = "opposing"
  /\ sp.state = "returned"
  /\ found' = Pushed(found, sp.result)
  /\ k' = k + 1
  /\ sp' = NoSearch
  /\ UNCHANGED << retryVars, httpVars >>
  /\ UNCHANGED << action, topic, limit, pc, papers, i, report, keywords, chat,
                  searchCalls, chatCalls, outcome, stdout, stderr, exitCode >>

\* The loop is over: devilAdvocate returns papers. generateReview appends
\* the Opposing Viewpoints and returns the Report; main's 'devil' gets the papers.
OpposingDone ==
  /\ pc = "opposing"
  /\ sp.state = "none"
  /\ k > Len(keywords)
  /\ IF action = "devil"
     THEN /\ Resolve(found)
          /\ UNCHANGED report
     ELSE /\ report' = Append(report, OpposingSection(found))
          /\ Resolve(report')
  /\ UNCHANGED << retryVars, httpVars >>
  /\ UNCHANGED << action, topic, limit, papers, i, keywords, k, found, sp, chat,
                  searchCalls, chatCalls, stdout, stderr, exitCode >>

\* ------------------------------------------------- generateReview, on its own

\* Before the entry point runs.
CliIdle ==
  /\ pc = "start"
  /\ papers = << >> /\ i = 0 /\ report = << >>
  /\ keywords = << >> /\ k = 0 /\ found = << >>
  /\ sp = NoSearch /\ chat = NoChat
  /\ searchCalls = << >> /\ chatCalls = << >>
  /\ outcome = NoOutcome
  /\ stdout = << >> /\ stderr = << >> /\ exitCode = -1

InitReview ==
  /\ action = "generateReview"
  /\ topic \in Topics
  /\ limit \in 1..MaxLimit
  /\ CliIdle
  /\ RetryOff
  /\ HttpOff

\* The steps of generateReview and of what it calls.
ReviewStep ==
  \/ GenerateReviewCall
  \/ \E err \in SearchErrors : SearchFails(err)
  \/ SearchRetry
  \/ \E docs \in SearchResults(Min(sp.limit, MaxLimit)) : SearchSucceeds(docs)
  \/ \E text \in ChatAnswers(chat.fn) : ChatSucceeds(text)
  \/ \E err \in ChatErrors : ChatFails(err)
  \/ ReviewSearchReturn
  \/ SummarizeStep
  \/ SummarizeReturn
  \/ GapsCall
  \/ GapsReturn
  \/ KeywordsReturn
  \/ OpposingSearch
  \/ OpposingReturn
  \/ OpposingDone

NextReview == ReviewStep

SpecReview == InitReview /\ [][NextReview]_vars

\* --------------------------------------------------------------- index.js: main

\* The subcommands of the CLI; anything else prints the usage.
Commands == {"search", "summarize", "chat", "gaps", "devil", "details",
             "citations", "review"}

\* The failures of the GETs of getPaperDetails and getCitations.
GetErrors == SearchErrors

\* The exit code of a node process whose event loop runs empty and that never
\* set process.exitCode.
ExitCodeAtEnd == 0

\* What the handler of main's rejection, err => console.error(err), leaves
\* the exit code at: it logs only.
ExitCodeAfterCatch == ExitCodeAtEnd

\* main() is called: the switch over the action, up to the first await.
MainStart ==
  /\ pc = "start"
  /\ action # "generateReview"
  /\ action # "review"
  /\ CASE action \in {"search", "gaps"} ->
            /\ CallSearch("main", topic, DefaultLimit)
            /\ pc' = IF action = "search" THEN "cmdSearch" ELSE "cmdGapsSearch"
            /\ UNCHANGED << chat, chatCalls, outcome >>
       [] action \in {"summarize", "chat"} ->
            /\ CallChat(IF action = "chat" THEN "chatWithPaper"
                                           ELSE "summarizeAbstract", << topic >>)
            /\ pc' = "cmdChat"
            /\ UNCHANGED << sp, searchCalls, outcome >>
       [] action = "devil" ->
            /\ CallChat("devilAdvocate", topic)
            /\ pc' = "keywords"
            /\ UNCHANGED << sp, searchCalls, outcome >>
       [] action \in {"details", "citations"} ->
            /\ pc' = "cmdGet"
            /\ UNCHANGED << sp, searchCalls, chat, chatCalls, outcome >>
       [] OTHER ->
            /\ Resolve(<< "Usage" >>)
            /\ UNCHANGED << sp, searchCalls, chat, chatCalls >>
  /\ UNCHANGED << retryVars, httpVars >>
  /\ UNCHANGED << action, topic, limit, papers, i, report, keywords, k, found,
                  stdout, stderr, exitCode >>

\* 'search': searchPapers returned.
CmdSearchReturn ==
  /\ pc = "cmdSearch"
  /\ sp.state = "returned"
  /\ Resolve(sp.result)
  /\ sp' = NoSearch
  /\ UNCHANGED << retryVars, httpVars >>
  /\ UNCHANGED << action, topic, limit, papers, i, report, keywords, k, found,
                  chat, searchCalls, chatCalls, stdout, stderr, exitCode >>

\* 'gaps': searchPapers returned, discoverGaps is called with the abstracts.
CmdGapsSearchReturn ==
  /\ pc = "cmdGapsSearch"
  /\ sp.state = "returned"
  /\ CallChat("discoverGaps", Abstracts(sp.result))
  /\ pc' = "cmdChat"
  /\ sp' = NoSearch
  /\ UNCHANGED << retryVars, httpVars >>
  /\ UNCHANGED << action, topic, limit, papers, i, report, keywords, k, found,
                  searchCalls, outcome, stdout, stderr, exitCode >>

\* 'summarize', 'chat', 'gaps': the stage function returned its text.
CmdChatReturn ==
  /\ pc = "cmdChat"
  /\ chat.state = "returned"
  /\ Resolve(<< chat.result >>)
  /\ chat' = NoChat
  /\ UNCHANGED << retryVars, httpVars >>
  /\ UNCHANGED << action, topic, limit, papers, i, report, keywords, k, found,
                  sp, searchCalls, chatCalls, stdout, stderr, exitCode >>

\* 'details', 'citations': the GET succeeded.
CmdGetSucceeds(docs) ==
  /\ pc = "cmdGet"
  /\ Resolve(docs)
  /\ UNCHANGED << retryVars, httpVars >>
  /\ UNCHANGED << action, topic, limit, papers, i, report, keywords, k, found,
                  sp, chat, searchCalls, chatCalls, stdout, stderr, exitCode >>

\* 'details', 'citations': the GET failed; there is no retry here.
CmdGetFails(err) ==
  /\ pc = "cmdGet"
  /\ Reject(err)
  /\ UNCHANGED << retryVars, httpVars >>
  /\ UNCHANGED << action, topic, limit, papers, i, report, keywords, k, found,
                  sp, chat, searchCalls, chatCalls, stdout, stderr, exitCode >>

\* The awaited call returned: console.log prints the result, main returns and
\* the process ends.
MainPrint ==
  /\ pc = "done"
  /\ action # "generateReview"
  /\ stdout' = Append(stdout, outcome.val)
  /\ exitCode' = ExitCodeAtEnd
  /\ pc' = "exited"
  /\ UNCHANGED << retryVars, httpVars >>
  /\ UNCHANGED << action, topic, limit, papers, i, report, keywords, k, found,
                  sp, chat, searchCalls, chatCalls, outcome, stderr >>

\* The awaited call threw: main().catch(err => console.error(err)), and the
\* process ends.
MainCatch ==
  /\ pc = "failed"
  /\ action # "generateReview"
  /\ stderr' = Append(stderr, outcome.err)
  /\ exitCode' = ExitCodeAfterCatch
  /\ pc' = "exited"
  /\ UNCHANGED << retryVars, httpVars >>
  /\ UNCHANGED << action, topic, limit, papers, i, report, keywords, k, found,
                  sp, chat, searchCalls, chatCalls, outcome, stdout >>

InitCli ==
  /\ action \in Commands \cup {"help"}
  /\ topic \in Topics
  /\ limit = DefaultLimit
  /\ CliIdle
  /\ RetryOff
  /\ HttpOff

NextCli ==
  \/ ReviewStep
  \/ MainStart
  \/ CmdSearchReturn
  \/ CmdGapsSearchReturn
  \/ CmdChatReturn
  \/ \E docs \in SearchResults(1) : CmdGetSucceeds(docs)
  \/ \E err \in GetErrors : CmdGetFails(err)
  \/ MainPrint
  \/ MainCatch

SpecCli == InitCli /\ [][NextCli]_vars

\* ============================================== src/services/llmClient.js

\* Texts are sequences of characters, so that String.includes can be computed.

\* 'Rate limit exceeded. Please try again in a few moments.'
MsgRateLimitExceeded ==
  << "R", "a", "t", "e", " ", "l", "i", "m", "i", "t", " ", "e", "x", "c",
     "e", "e", "d", "e", "d", ".", " ", "P", "l", "e", "a", "s", "e", " ",
     "t", "r", "y", " ", "a", "g", "a", "i", "n", " ", "i", "n", " ", "a",
     " ", "f", "e", "w", " ", "m", "o", "m", "e", "n", "t", "s", "." >>

\* 'Invalid API key. Please check your OpenRouter configuration.'
MsgInvalidApiKey ==
  << "I", "n", "v", "a", "l", "i", "d", " ", "A", "P", "I", " ", "k", "e",
     "y", ".", " ", "P", "l", "e", "a", "s", "e", " ", "c", "h", "e", "c",
     "k", " ", "y", "o", "u", "r", " ", "O", "p", "e", "n", "R", "o", "u",
     "t", "e", "r", " ", "c", "o", "n", "f", "i", "g", "u", "r", "a", "t",
     "i", "o", "n", "." >>

\* 'OpenRouter service temporarily unavailable. Please try again later.'
MsgUnavailable ==
  << "O", "p", "e", "n", "R", "o", "u", "t", "e", "r", " ", "s", "e", "r",
     "v", "i", "c", "e", " ", "t", "e", "m", "p", "o", "r", "a", "r", "i",
     "l", "y", " ", "u", "n", "a", "v", "a", "i", "l", "a", "b", "l", "e",
     ".", " ", "P", "l", "e", "a", "s", "e", " ", "t", "r", "y", " ", "a",
     "g", "a", "i", "n", " ", "l", "a", "t", "e", "r", "." >>

\* 'Analysis failed: '
MsgAnalysisFailed ==
  << "A", "n", "a", "l", "y", "s", "i", "s", " ", "f", "a", "i", "l", "e",
     "d", ":", " " >>

\* The messages of the failures the completion provider's client throws.
MsgBadRequest ==
  << "4", "0", "0", " ", "B", "a", "d", " ", "r", "e", "q", "u", "e", "s",
     "t" >>

MsgForbidden ==
  << "4", "0", "3", " ", "R", "a", "t", "e", " ", "l", "i", "m", "i", "t",
     "e", "d", " ", "b", "y", " ", "u", "p", "s", "t", "r", "e", "a", "m" >>

MsgConnection ==
  << "C", "o", "n", "n", "e", "c", "t", "i", "o", "n", " ", "e", "r", "r",
     "o", "r", "." >>

\* The message of the SyntaxError of JSON.parse.
MsgSyntaxError ==
  << "U", "n", "e", "x", "p", "e", "c", "t", "e", "d", " ", "t", "o", "k",
     "e", "n" >>

\* What openai.chat.completions.create ends with: a response whose content is
\* JSON, a response whose content is not, or a failure with its status (0:
\* the failure has no status) and message.
CompletionAnswers ==
  { [ok |-> TRUE, json |-> TRUE, status |-> 200, message |-> << >>],
    [ok |-> TRUE, json |-> FALSE, status |-> 200, message |-> << >>],
    [ok |-> FALSE, json |-> FALSE, status |-> 429, message |-> << "4", "2", "9" >>],
    [ok |-> FALSE, json |-> FALSE, status |-> 401, message |-> << "4", "0", "1" >>],
    [ok |-> FALSE, json |-> FALSE, status |-> 500, message |-> << "5", "0", "0" >>],
    [ok |-> FALSE, json |-> FALSE, status |-> 400, message |-> MsgBadRequest],
    [ok |-> FALSE, json |-> FALSE, status |-> 403, message |-> MsgForbidden],
    [ok |-> FALSE, json |-> FALSE, status |-> 0, message |-> MsgConnection] }

\* The failure the try block of analyzeFinancialData ends with, if any.
CaughtError(ans) ==
  IF ans.ok THEN [status |-> 0, message |-> MsgSyntaxError]
            ELSE [status |-> ans.status, message |-> ans.message]

\* The message of the Error the catch block throws for error.
Classified(error) ==
  IF error.status = 429 THEN MsgRateLimitExceeded
  ELSE IF error.status = 401 THEN MsgInvalidApiKey
  ELSE IF error.status >= 500 THEN MsgUnavailable
  ELSE MsgAnalysisFailed \o error.message

\* The status of the Error the catch block throws: new Error(...) has none.
ThrownStatus(error) == 0

\* How analyzeFinancialData(data) ends when the provider answers ans: with the
\* parsed analysis, or with a new Error.
AnalyzeFinancialData(ans) ==
  IF ans.ok /\ ans.json
  THEN [ok |-> TRUE, status |-> 0, message |-> << >>, value |-> "analysis"]
  ELSE [ok |-> FALSE, status |-> ThrownStatus(CaughtError(ans)),
        message |-> Classified(CaughtError(ans)), value |-> ""]

\* --------------------------------------------------------- retryWithBackoff

\* The largest maxRetries retryWithBackoff is called with.
MaxAttempts == 3

\* maxRetries = 3
DefaultMaxRetries == 3

\* The value of a call that runs off the end of the function.
Undefined == "undefined"

\* How an operation that is not analyzeFinancialData may end: with a value,
\* with no value, or with a failure that carries the status of the provider's
\* answer.
OperationOutcomes ==
  { [ok |-> TRUE, status |-> 0, message |-> << >>, value |-> v] :
      v \in {"success", Undefined} } \cup
  { [ok |-> FALSE, status |-> st, message |-> << >>, value |-> ""] :
      st \in {401, 429, 500, 0} }

\* A variant that gives up only after maxRetries are exceeded.
GivesUpLate(attempt, maxRetries, error) ==
  attempt > maxRetries \/ error.status = 401

\* attempt === maxRetries || error.status === 401
GivesUp(attempt, maxRetries, error) ==
  attempt = maxRetries \/ error.status = 401

\* A variant whose first wait is one second: Math.pow(2, attempt - 1) * 1000
BackoffFromOne(attempt) == (2 ^ (attempt - 1)) * 1000

\* Math.pow(2, attempt) * 1000
Backoff(attempt) == (2 ^ attempt) * 1000

\* A variant of the loop that tests its bound after the body (do ... while):
\* fn is invoked once whatever maxRetries is.
EnterAttemptAtLeastOnce(a) ==
  /\ rAttempt' = a
  /\ IF a <= rMax \/ a = 1
     THEN /\ rState' = "calling"
          /\ rInvocations' = rInvocations + 1
          /\ UNCHANGED rResult
     ELSE /\ rState' = "returned"
          /\ rResult' = [kind |-> "value", val |-> Undefined,
                         err |-> [status |-> 0, message |-> << >>]]
          /\ UNCHANGED rInvocations

\* The head of the for loop with attempt = a: fn is invoked, or the loop and
\* the function end.
EnterAttempt(a) ==
  /\ rAttempt' = a
  /\ IF a <= rMax
     THEN /\ rState' = "calling"
          /\ rInvocations' = rInvocations + 1
          /\ UNCHANGED rResult
     ELSE /\ rState' = "returned"
          /\ rResult' = [kind |-> "value", val |-> Undefined,
                         err |-> [status |-> 0, message |-> << >>]]
          /\ UNCHANGED rInvocations

\* fn ended with out: return its value, throw its failure, or start the timer.
Settle(out) ==
  /\ rOutcomes' = Append(rOutcomes, out)
  /\ IF out.ok
     THEN /\ rState' = "returned"
          /\ rResult' = [kind |-> "value", val |-> out.value,
                         err |-> [status |-> 0, message |-> << >>]]
          /\ UNCHANGED rPending
     ELSE IF GivesUp(rAttempt, rMax, out)
          THEN /\ rState' = "thrown"
               /\ rResult' = [kind |-> "error", val |-> "",
                              err |-> [status |-> out.status,
                                       message |-> out.message]]
               /\ UNCHANGED rPending
          ELSE /\ rState' = "waiting"
               /\ rPending' = Backoff(rAttempt)
               /\ UNCHANGED rResult
  /\ UNCHANGED << rFn, rMax, rAttempt, rInvocations, rDelays >>

\* retryWithBackoff(fn, maxRetries) is called.
RetryCall ==
  /\ rState = "start"
  /\ EnterAttempt(1)
  /\ UNCHANGED << rFn, rMax, rPending, rOutcomes, rAnswers, rDelays >>
  /\ UNCHANGED << cliVars, httpVars >>

\* fn, an operation, ends.
OperationEnds(out) ==
  /\ rState = "calling"
  /\ rFn = "operation"
  /\ Settle(out)
  /\ UNCHANGED rAnswers
  /\ UNCHANGED << cliVars, httpVars >>

\* fn is analyzeFinancialData, and the provider answers its call.
AnalyzeEnds(ans) ==
  /\ rState = "calling"
  /\ rFn = "analyze"
  /\ rAnswers' = Append(rAnswers, ans)
  /\ Settle(AnalyzeFinancialData(ans))
  /\ UNCHANGED << cliVars, httpVars >>

\* The timer fires: attempt++ and the next turn of the loop.
RetryTimer ==
  /\ rState = "waiting"
  /\ rDelays' = Append(rDelays, rPending)
  /\ EnterAttempt(rAttempt + 1)
  /\ UNCHANGED << rFn, rMax, rPending, rOutcomes, rAnswers >>
  /\ UNCHANGED << cliVars, httpVars >>

InitRetry ==
  /\ rFn \in {"operation", "analyze"}
  /\ rMax \in (-1)..MaxAttempts
  /\ rAttempt = 0 /\ rState = "start" /\ rPending = 0
  /\ rOutcomes = << >> /\ rInvocations = 0 /\ rAnswers = << >>
  /\ rDelays = << >>
  /\ rResult = [kind |-> "pending", val |-> "",
                err |-> [status |-> 0, message |-> << >>]]
  /\ CliOff
  /\ HttpOff

NextRetry ==
  \/ RetryCall
  \/ \E out \in OperationOutcomes : OperationEnds(out)
  \/ \E ans \in CompletionAnswers : AnalyzeEnds(ans)
  \/ RetryTimer

SpecRetry == InitRetry /\ [][NextRetry]_vars

\* ================================= src/controllers/analysisController.js

\* s.includes(t)
Includes(s, t) ==
  \E h \in 0..(Len(s) - Len(t)) : SubSeq(s, h + 1, h + Len(t)) = t

\* 'Rate limited'
RateLimited ==
  << "R", "a", "t", "e", " ", "l", "i", "m", "i", "t", "e", "d" >>

\* 'Internal server error'
MsgInternal ==
  << "I", "n", "t", "e", "r", "n", "a", "l", " ", "s", "e", "r", "v", "e",
     "r", " ", "e", "r", "r", "o", "r" >>

\* What validateFinancialData(parsedData) returns.
Validations ==
  { [valid |-> TRUE, errors |-> << >>],
    [valid |-> FALSE, errors |-> << "Missing required field: invoices" >>] }

\* The requests: whether data (POST /analyze) or file (POST /analyze-file) is
\* there, the format or the file extension, whether the file can be read,
\* whether the parser accepts the text, and what the validator answers.
Requests(h) ==
  { r \in [present : BOOLEAN, format : {"csv", "json", "txt"},
           readable : BOOLEAN, parses : BOOLEAN, validation : Validations] :
      h = "analyzeFinancialData" => r.readable }

\* A response: res.status(st).json(body); res.json(body) sends status 200.
Response(st, error, message, details) ==
  [status |-> st, success |-> (error = ""), error |-> error,
   message |-> message, details |-> details]

\* A variant that goes on to the analysis whatever the validator said.
ValidationIgnored(v) == TRUE

\* validation.valid
ValidationPasses(v) == v.valid

\* error.message.includes('Rate limited')
IsRateLimitedMessage(message) == Includes(message, RateLimited)

\* process.env.NODE_ENV === 'development' ? error.message : 'Internal server error'
ShownMessage(message) == IF nodeEnv = "development" THEN message ELSE MsgInternal

\* analysisController.analyzeFinancialData(req, res), up to the await of
\* analyzeFinancialData(parsedData) or to the response that ends it.
AnalyzeRequest ==
  /\ handler = "analyzeFinancialData"
  /\ hpc = "start"
  /\ IF ~req.present
     THEN /\ responses' = Append(responses,
               Response(400, "Missing required field: data", << >>, << >>))
          /\ hpc' = "done"
          /\ UNCHANGED completions
     ELSE IF ~req.parses
     THEN /\ responses' = Append(responses,
               Response(400, "Data parsing failed", << >>, << >>))
          /\ hpc' = "done"
          /\ UNCHANGED completions
     ELSE IF ~ValidationPasses(req.validation)
     THEN /\ responses' = Append(responses,
               Response(400, "Data validation failed", << >>,
                        req.validation.errors))
          /\ hpc' = "done"
          /\ UNCHANGED completions
     ELSE /\ completions' = completions + 1
          /\ hpc' = "analysis"
          /\ UNCHANGED responses
  /\ UNCHANGED << handler, req, nodeEnv, answers, fileExists >>
  /\ UNCHANGED << cliVars, retryVars >>

\* A variant of the catch block whose 429 branch lacks its return: the 429
\* response is followed by the 500 response.
AnalyzeAnsweredFallingThrough(ans) ==
  /\ handler = "analyzeFinancialData"
  /\ hpc = "analysis"
  /\ answers' = Append(answers, ans)
  /\ LET out == AnalyzeFinancialData(ans)
         r500 == Response(500, "Analysis failed", ShownMessage(out.message), << >>)
     IN  responses' =
           IF out.ok THEN Append(responses, Response(200, "", << >>, << >>))
           ELSE IF IsRateLimitedMessage(out.message)
                THEN Append(Append(responses,
                       Response(429, "Rate limited", out.message, << >>)), r500)
                ELSE Append(responses, r500)
  /\ hpc' = "done"
  /\ UNCHANGED << handler, req, nodeEnv, completions, fileExists >>
  /\ UNCHANGED << cliVars, retryVars >>

\* The provider answered: the success response, or the catch block.
AnalyzeAnswered(ans) ==
  /\ handler = "analyzeFinancialData"
  /\ hpc = "analysis"
  /\ answers' = Append(answers, ans)
  /\ LET out == AnalyzeFinancialData(ans)
     IN  responses' = Append(responses,
           IF out.ok THEN Response(200, "", << >>, << >>)
           ELSE IF IsRateLimitedMessage(out.message)
                THEN Response(429, "Rate limited", out.message, << >>)
                ELSE Response(500, "Analysis failed",
                              ShownMessage(out.message), << >>))
  /\ hpc' = "done"
  /\ UNCHANGED << handler, req, nodeEnv, completions, fileExists >>
  /\ UNCHANGED << cliVars, retryVars >>

\* if (req.file && fs.existsSync(req.file.path)) fs.unlinkSync(req.file.path)
CleanedUp(exists) == IF req.present /\ exists THEN FALSE ELSE exists

\* analysisController.analyzeFile(req, res), up to the await of
\* analyzeFinancialData(parsedData) or to the response that ends it.
AnalyzeFileRequest ==
  /\ handler = "analyzeFile"
  /\ hpc = "start"
  /\ IF ~req.present
     THEN /\ responses' = Append(responses,
               Response(400, "No file uploaded", << >>, << >>))
          /\ hpc' = "done"
          /\ UNCHANGED << completions, fileExists >>
     ELSE IF ~req.readable \/ (req.format \in {"csv", "json"} /\ ~req.parses)
     THEN \* readFileSync or the parser throws: the catch block
          /\ fileExists' = CleanedUp(fileExists)
          /\ responses' = Append(responses,
               Response(500, "File analysis failed", << >>, << >>))
          /\ hpc' = "done"
          /\ UNCHANGED completions
     ELSE IF req.format \notin {"csv", "json"}
     THEN /\ responses' = Append(responses,
               Response(400, "Unsupported file format", << >>, << >>))
          /\ hpc' = "done"
          /\ UNCHANGED << completions, fileExists >>
     ELSE \* fs.unlinkSync(req.file.path), then the validation
          /\ fileExists' = FALSE
          /\ IF ~ValidationPasses(req.validation)
             THEN /\ responses' = Append(responses,
                       Response(400, "Data validation failed", << >>,
                                req.validation.errors))
                  /\ hpc' = "done"
                  /\ UNCHANGED completions
             ELSE /\ completions' = completions + 1
                  /\ hpc' = "analysis"
                  /\ UNCHANGED responses
  /\ UNCHANGED << handler, req, nodeEnv, answers >>
  /\ UNCHANGED << cliVars, retryVars >>

\* The provider answered: the success response, or the catch block.
AnalyzeFileAnswered(ans) ==
  /\ handler = "analyzeFile"
  /\ hpc = "analysis"
  /\ answers' = Append(answers, ans)
  /\ LET out == AnalyzeFinancialData(ans)
     IN  IF out.ok
         THEN /\ responses' = Append(responses, Response(200, "", << >>, << >>))
              /\ UNCHANGED fileExists
         ELSE /\ fileExists' = CleanedUp(fileExists)
              /\ responses' = Append(responses,
                   Response(500, "File analysis failed", out.message, << >>))
  /\ hpc' = "done"
  /\ UNCHANGED << handler, req, nodeEnv, completions >>
  /\ UNCHANGED << cliVars, retryVars >>

InitHttp ==
  /\ handler \in {"analyzeFinancialData", "analyzeFile"}
  /\ req \in Requests(handler)
  /\ nodeEnv \in {"development", "production"}
  /\ hpc = "start"
  /\ responses = << >> /\ answers = << >> /\ completions = 0
  /\ fileExists = (handler = "analyzeFile" /\ req.present)
  /\ CliOff
  /\ RetryOff

NextHttp ==
  \/ AnalyzeRequest
  \/ \E ans \in CompletionAnswers : AnalyzeAnswered(ans)
  \/ AnalyzeFileRequest
  \/ \E ans \in CompletionAnswers : AnalyzeFileAnswered(ans)

SpecHttp == InitHttp /\ [][NextHttp]_vars

\* ====================================================== searchPapers, on its own

\* One call of searchPapers(query, limit), followed without a bound on its
\* retries. The lists of failures, delays and requests are kept up to
\* MaxRateLimits retries; past that the call goes on and the lists stay.
Saturating(q, x, n) == IF Len(q) < n THEN Append(q, x) ELSE q

\* searchPapers(topic, limit) is called.
SearchPapersCall ==
  /\ pc = "start"
  /\ action = "searchPapers"
  /\ CallSearch("caller", topic, limit)
  /\ pc' = "search"
  /\ UNCHANGED << retryVars, httpVars >>
  /\ UNCHANGED << action, topic, limit, papers, i, report, keywords, k, found,
                  chat, chatCalls, outcome, stdout, stderr, exitCode >>

\* A variant of the catch block that gives up after MaxRateLimits retries:
\* if (status === 429 && retries < max) { wait; retry } throw err
SearchCatchGivingUp(err) ==
  /\ sp.state = "request"
  /\ IF IsRateLimit(err) /\ Len(sp.delays) < MaxRateLimits
     THEN /\ sp' = [sp EXCEPT !.state = "delay",
                              !.errors = Saturating(@, err, MaxRateLimits)]
          /\ UNCHANGED << pc, outcome >>
     ELSE /\ sp' = [sp EXCEPT !.state = "thrown", !.errors = Append(@, err)]
          /\ Reject(err)
  /\ UNCHANGED << retryVars, httpVars >>
  /\ UNCHANGED << action, topic, limit, papers, i, report, keywords, k, found,
                  chat, searchCalls, chatCalls, stdout, stderr, exitCode >>

\* The catch block of searchPapers: a 429 answer starts the timer, however
\* many came before; every other failure is thrown.
SearchCatch(err) ==
  /\ sp.state = "request"
  /\ IF IsRateLimit(err)
     THEN /\ sp' = [sp EXCEPT !.state = "delay",
                              !.errors = Saturating(@, err, MaxRateLimits)]
          /\ UNCHANGED << pc, outcome >>
     ELSE /\ sp' = [sp EXCEPT !.state = "thrown", !.errors = Append(@, err)]
          /\ Reject(err)
  /\ UNCHANGED << retryVars, httpVars >>
  /\ UNCHANGED << action, topic, limit, papers, i, report, keywords, k, found,
                  chat, searchCalls, chatCalls, stdout, stderr, exitCode >>

\* The timer fires: return searchPapers(query, limit), which issues the GET.
SearchTimer ==
  /\ sp.state = "delay"
  /\ sp' = [sp EXCEPT !.state = "request",
                      !.delays = Saturating(@, SearchDelay, MaxRateLimits),
                      !.requests = Saturating(@, RetryRequest(sp),
                                              MaxRateLimits + 1)]
  /\ UNCHANGED << retryVars, httpVars >>
  /\ UNCHANGED << action, topic, limit, pc, papers, i, report, keywords, k, found,
                  chat, searchCalls, chatCalls, outcome, stdout, stderr, exitCode >>

\* searchPapers, and every recursive call above it, returns res.data.data.
SearchPapersReturn ==
  /\ pc = "search"
  /\ action = "searchPapers"
  /\ sp.state = "returned"
  /\ Resolve(sp.result)
  /\ UNCHANGED << retryVars, httpVars >>
  /\ UNCHANGED << action, topic, limit, papers, i, report, keywords, k, found,
                  sp, chat, searchCalls, chatCalls, stdout, stderr, exitCode >>

\* The provider answers the GET, with a failure or with Documents.
ProviderAnswers ==
  \/ \E err \in SearchErrors : SearchCatch(err)
  \/ \E docs \in SearchResults(Min(sp.limit, MaxLimit)) : SearchSucceeds(docs)

InitSearch ==
  /\ action = "searchPapers"
  /\ topic \in Topics
  /\ limit \in 1..MaxLimit
  /\ CliIdle
  /\ RetryOff
  /\ HttpOff

NextSearch ==
  \/ SearchPapersCall
  \/ \E err \in SearchErrors : SearchCatch(err)
  \/ \E docs \in SearchResults(Min(sp.limit, MaxLimit)) : SearchSucceeds(docs)
  \/ SearchTimer
  \/ SearchPapersReturn

\* The call is made, the provider answers every GET, the timer fires and the
\* function returns once its GET has: the event loop runs each of them.
SpecSearch ==
  /\ InitSearch
  /\ [][NextSearch]_vars
  /\ WF_vars(SearchPapersCall)
  /\ WF_vars(ProviderAnswers)
  /\ WF_vars(SearchTimer)
  /\ WF_vars(SearchPapersReturn)

\* ================================================================ properties

\* ------------------------------------------------------------------------ C1

IsPaperSection(s) == s.kind = "paper"

IsInitialSearch(c) == c.caller = "generateReview"

\* C1: a completed run of generateReview has called the search for the topic
\* exactly once, with the requested limit, and its Report holds exactly one
\* summary section per Document of the SearchResult that call returned, in the
\* order of the SearchResult.
C1_OneSearchOneSectionPerDocument ==
  (pc = "done" /\ action = "generateReview") =>
    LET initial == SelectSeq(searchCalls, IsInitialSearch)
        sections == SelectSeq(outcome.val, IsPaperSection)
    IN  /\ Len(initial) = 1
        /\ initial[1].query = topic
        /\ initial[1].limit = limit
        /\ initial[1].returned
        /\ Len(sections) = Len(initial[1].result)
        /\ \A j \in 1..Len(sections) :
             /\ sections[j].title = initial[1].result[j].title
             /\ sections[j].url = initial[1].result[j].url
             /\ sections[j].authors = initial[1].result[j].authors

\* A completed review with limit 2 of two different Documents, the second of
\* the corpus before the first.
C1_Witness ==
  /\ pc = "done"
  /\ action = "generateReview"
  /\ limit = 2
  /\ Len(papers) = 2
  /\ papers[1].title = "T3"
  /\ papers[2].title = "T1"

\* ------------------------------------------------------------------------ C2

IsSummarizeCall(c) == c.fn = "summarizeAbstract"

HasNoAbstract(p) == p.abstract = "" \/ p.abstract = Absent

HasAbstract(p) == ~HasNoAbstract(p)

\* C2: at every moment of a generateReview run, the section of a Document
\* whose abstract is empty or absent reads "No abstract available.", and the
\* summarize calls made so far are, in order, calls for the Documents with a
\* non-empty abstract: none is made for a Document without one.
C2_PlaceholderWithoutCompletion ==
  (action = "generateReview" /\ pc \notin {"start", "search"}) =>
    LET sections == SelectSeq(report, IsPaperSection)
        calls == SelectSeq(chatCalls, IsSummarizeCall)
        withAbstract == SelectSeq(papers, HasAbstract)
    IN  /\ \A j \in 1..Len(sections) :
             HasNoAbstract(papers[j]) => sections[j].summary = NoAbstract
        /\ Len(calls) <= Len(withAbstract)
        /\ \A j \in 1..Len(calls) : calls[j].arg = << withAbstract[j].abstract >>
        /\ \A j \in 1..Len(calls) : calls[j].arg # << "" >> /\ calls[j].arg # << Absent >>

\* A completed review of a Document with an empty abstract and one with an
\* abstract: one placeholder, one summarize call.
C2_Witness ==
  /\ pc = "done"
  /\ action = "generateReview"
  /\ Len(papers) = 2
  /\ papers[1].abstract = ""
  /\ papers[2].abstract = "A1"
  /\ Len(SelectSeq(chatCalls, IsSummarizeCall)) = 1
  /\ report[2].summary = NoAbstract
  /\ report[3].summary # NoAbstract

\* ------------------------------------------------------------------------ C5

\* C5: a searchPapers call that returns after n rate-limit answers has waited
\* the delay of 5 seconds exactly n times, has issued n + 1 requests, all with
\* the query and the limit it was called with, and has raised nothing.
C5_RateLimitRetriedAfterFixedDelay ==
  sp.state = "returned" =>
    LET call == searchCalls[Len(searchCalls)]
        n == Len(sp.errors)
    IN  /\ \A j \in 1..n : sp.errors[j].hasResponse /\ sp.errors[j].status = 429
        /\ sp.delays = [j \in 1..n |-> 5000]
        /\ sp.requests = [j \in 1..(n + 1) |->
                            [query |-> call.query, limit |-> call.limit]]
        /\ sp.result = call.result
        /\ outcome.kind = "pending"

\* A search that returned a Document after two rate-limit answers.
C5_Witness ==
  /\ sp.state = "returned"
  /\ Len(sp.errors) = 2
  /\ Len(sp.result) = 1
  /\ sp.limit = 2

\* ------------------------------------------------------------------------ C6

\* C6: a failure of the search other than the 429 answer is the last thing
\* that happens in a searchPapers call: the call has thrown that failure to
\* the entry point, no delay was waited for it and no request follows it.
C6_OtherFailuresPropagate ==
  \A j \in 1..Len(sp.errors) :
    ~(sp.errors[j].hasResponse /\ sp.errors[j].status = 429) =>
      /\ j = Len(sp.errors)
      /\ sp.state = "thrown"
      /\ Len(sp.requests) = j
      /\ Len(sp.delays) = j - 1
      /\ outcome.kind = "error"
      /\ outcome.err = sp.errors[j]
      /\ pc = "failed"

\* A network error after two rate-limit retries of a keyword search.
C6_Witness ==
  /\ sp.state = "thrown"
  /\ Len(sp.errors) = 3
  /\ ~sp.errors[3].hasResponse
  /\ Len(searchCalls) = 2

\* ------------------------------------------------------------------------ C3

NonAuthFailure(o) == ~o.ok /\ o.status # 401

\* C3: with maxRetries >= 1, when fn has failed k < maxRetries times with
\* failures other than AuthFailure and then succeeded, it was invoked k + 1
\* times and its value is returned; when it has failed maxRetries times, it
\* was invoked maxRetries times and the last failure is thrown; when its first
\* failure is an AuthFailure, it was invoked once and that failure is thrown
\* with no wait.
C3_RetryCountsAndResult ==
  LET n == Len(rOutcomes)
  IN  (rState # "off" /\ rMax >= 1) =>
        /\ (/\ n >= 1
            /\ rOutcomes[n].ok
            /\ \A j \in 1..(n - 1) : NonAuthFailure(rOutcomes[j])
            /\ n - 1 < rMax)
           => /\ rState = "returned"
              /\ rInvocations = n
              /\ rResult.kind = "value"
              /\ rResult.val = rOutcomes[n].value
        /\ (n = rMax /\ \A j \in 1..n : ~rOutcomes[j].ok)
           => /\ rState = "thrown"
              /\ rInvocations = rMax
              /\ rResult.kind = "error"
              /\ rResult.err.status = rOutcomes[n].status
              /\ rResult.err.message = rOutcomes[n].message
        /\ (n >= 1 /\ ~rOutcomes[1].ok /\ rOutcomes[1].status = 401)
           => /\ rState = "thrown"
              /\ rInvocations = 1
              /\ rDelays = << >>
              /\ rResult.kind = "error"
              /\ rResult.err.status = 401

\* An operation that failed twice and then succeeded, with maxRetries = 3.
C3_Witness ==
  /\ rFn = "operation"
  /\ rMax = 3
  /\ rState = "returned"
  /\ Len(rOutcomes) = 3
  /\ ~rOutcomes[1].ok /\ ~rOutcomes[2].ok /\ rOutcomes[3].ok
  /\ rInvocations = 3
  /\ rResult.val = "success"

\* ------------------------------------------------------------------------ C4

\* C4: when retryWithBackoff runs analyzeFinancialData and the provider
\* answers 401, the provider was called once, the failure is thrown and no
\* backoff was or is waited.
C4_AuthFailureNeverRetried ==
  (/\ rFn = "analyze"
   /\ rMax >= 1
   /\ Len(rAnswers) >= 1
   /\ rAnswers[1].status = 401)
  => /\ Len(rAnswers) = 1
     /\ rInvocations = 1
     /\ rState = "thrown"
     /\ rDelays = << >>

\* ------------------------------------------------------------------------ C7

\* C7: a request to POST /analyze whose completion call the provider answered
\* with 429 got a 429 response, after exactly one completion call.
C7_RateLimitSurfacedAs429 ==
  (/\ handler = "analyzeFinancialData"
   /\ hpc = "done"
   /\ Len(answers) >= 1
   /\ answers[1].status = 429)
  => /\ Len(responses) = 1
     /\ responses[1].status = 429
     /\ completions = 1

\* ------------------------------------------------------------------------ C8

\* C8: when the handler of POST /analyze-file has sent its response, the
\* uploaded temporary file is removed.
C8_UploadAlwaysRemoved ==
  (handler = "analyzeFile" /\ hpc = "done") => ~fileExists

\* ------------------------------------------------------------------------ C9

\* The request reaches the validator, which rejects it.
FailsValidation ==
  /\ req.present
  /\ req.parses
  /\ ~req.validation.valid
  /\ handler = "analyzeFile" => (req.readable /\ req.format \in {"csv", "json"})

\* C9: for a request that fails validation, in both handlers, no completion
\* call is ever made and the response is a 400 carrying the validator's error
\* list; for a request to POST /analyze without data, or whose data does not
\* parse, no completion call is ever made and the response is a 400.
C9_InvalidRequestNeverAnalyzed ==
  hpc # "off" =>
    /\ FailsValidation =>
         /\ completions = 0
         /\ answers = << >>
         /\ hpc \in {"start", "done"}
         /\ hpc = "done" =>
              /\ Len(responses) = 1
              /\ responses[1].status = 400
              /\ responses[1].error = "Data validation failed"
              /\ responses[1].details = req.validation.errors
              /\ responses[1].details # << >>
    /\ (handler = "analyzeFinancialData" /\ (~req.present \/ ~req.parses)) =>
         /\ completions = 0
         /\ answers = << >>
         /\ hpc \in {"start", "done"}
         /\ hpc = "done" =>
              /\ Len(responses) = 1
              /\ responses[1].status = 400

\* An uploaded file that failed validation and was answered with 400.
C9_Witness ==
  /\ handler = "analyzeFile"
  /\ FailsValidation
  /\ hpc = "done"
  /\ responses[1].status = 400
  /\ responses[1].details = << "Missing required field: invoices" >>

\* ----------------------------------------------------------------------- C10

\* C10: when the process has ended, a subcommand whose provider call failed
\* left a non-zero exit code, and a subcommand that printed its result left
\* the exit code zero.
C10_ExitCodeTellsFailure ==
  pc = "exited" =>
    /\ outcome.kind = "error" => exitCode # 0
    /\ outcome.kind = "value" => (exitCode = 0 /\ Len(stdout) = 1)

\* ----------------------------------------------------------------------- C11

IsGapsCall(c) == c.fn = "discoverGaps"

IsKeywordCall(c) == c.fn = "devilAdvocate"

IsKeywordSearch(c) == c.caller = "devilAdvocate"

\* The Report after all four stages: the title, one section per Document, the
\* gaps and the Opposing Viewpoints, every call of the run having returned.
CompleteReport(r) ==
  /\ Len(r) = Len(papers) + 3
  /\ r[1].kind = "title"
  /\ \A j \in 2..(Len(papers) + 1) : r[j].kind = "paper"
  /\ r[Len(r) - 1].kind = "gaps"
  /\ r[Len(r)].kind = "opposing"
  /\ Len(SelectSeq(chatCalls, IsGapsCall)) = 1
  /\ Len(SelectSeq(chatCalls, IsKeywordCall)) = 1
  /\ \A j \in 1..Len(searchCalls) : searchCalls[j].returned

\* C11: a generateReview run ends either failed or completed. A failure of a
\* search (other than a 429) or of any completion leaves the caller with the
\* failure alone, no section of the Report; a Report is returned only when all
\* four stages have completed, and it is then the whole Report.
C11_CompletedOrFailed ==
  /\ outcome.kind \in {"pending", "value", "error"}
  /\ (sp.state = "thrown" \/ chat.state = "thrown") => outcome.kind = "error"
  /\ pc = "failed" <=> outcome.kind = "error"
  /\ pc = "done" <=> outcome.kind = "value"
  /\ outcome.kind = "error" =>
       /\ outcome.val = << >>
       /\ outcome.err # NoError
       /\ sp.state = "thrown" \/ chat.state = "thrown"
  /\ outcome.kind = "value" =>
       /\ outcome.err = NoError
       /\ outcome.val = report
       /\ CompleteReport(outcome.val)

\* The keyword completion failed when the Report already held the title, a
\* section and the gaps: the caller has the failure and nothing of the Report.
C11_Witness ==
  /\ pc = "failed"
  /\ chat.state = "thrown"
  /\ chat.fn = "devilAdvocate"
  /\ Len(report) >= 3
  /\ outcome.kind = "error"
  /\ outcome.val = << >>

\* ----------------------------------------------------------------------- C12

\* C12: devilAdvocate, called with limit 3 by generateReview and by the
\* 'devil' subcommand, keeps the first 3 pieces of the keyword text at most,
\* however many pieces the text has: at most 3 keyword searches are made and
\* at most 3 Documents are returned. No limit from 0 to 3 lets more than
\* limit pieces through.
C12_AtMostLimitKeywords ==
  LET kc == SelectSeq(chatCalls, IsKeywordCall)
      searches == SelectSeq(searchCalls, IsKeywordSearch)
  IN  /\ Len(kc) <= 1
      /\ Len(keywords) <= OpposingLimit
      /\ Len(searches) <= OpposingLimit
      /\ Len(found) <= OpposingLimit
      /\ (action = "devil" /\ outcome.kind = "value") =>
           Len(outcome.val) <= OpposingLimit
      /\ (action = "review" /\ outcome.kind = "value") =>
           Len(outcome.val[Len(outcome.val)].entries) <= OpposingLimit
      /\ (pc = "opposing" /\ Len(kc) = 1) =>
           LET pieces == Split(kc[1].result)
           IN  /\ kc[1].returned
               /\ Len(keywords) = Min(Len(pieces), OpposingLimit)
               /\ \A j \in 1..Len(keywords) : keywords[j] = pieces[j]
               /\ \A lim \in 0..OpposingLimit :
                    Len(KeywordsOf(kc[1].result, lim)) <= lim

\* The 'devil' subcommand after a keyword text of more than 3 pieces: 3
\* searches were made and 3 Documents are returned.
C12_Witness ==
  LET kc == SelectSeq(chatCalls, IsKeywordCall)
      searches == SelectSeq(searchCalls, IsKeywordSearch)
  IN  /\ action = "devil"
      /\ outcome.kind = "value"
      /\ Len(kc) = 1
      /\ kc[1].returned
      /\ Len(Split(kc[1].result)) > OpposingLimit
      /\ Len(searches) = OpposingLimit
      /\ Len(outcome.val) = OpposingLimit

\* ----------------------------------------------------------------------- C13

\* C13: a generateReview run calls discoverGaps once, when the summaries are
\* done, and never again. The call is given one entry per Document of the
\* initial SearchResult, in order: the abstract of the Document, or the empty
\* string for a Document whose abstract is empty or absent.
C13_GapsCalledOnceWithEveryAbstract ==
  LET gc == SelectSeq(chatCalls, IsGapsCall)
  IN  /\ Len(gc) <= 1
      /\ pc \in {"start", "search", "summarize"} => Len(gc) = 0
      /\ pc \in {"gaps", "keywords", "opposing", "done"} => Len(gc) = 1
      /\ Len(gc) = 1 =>
           /\ IsInitialSearch(searchCalls[1])
           /\ searchCalls[1].returned
           /\ LET docs == searchCalls[1].result
              IN  /\ Len(gc[1].arg) = Len(docs)
                  /\ \A j \in 1..Len(docs) :
                       gc[1].arg[j] = IF HasNoAbstract(docs[j]) THEN ""
                                      ELSE docs[j].abstract

\* A completed review of a Document with no abstract followed by one with an
\* abstract: discoverGaps was given the empty string, then the abstract.
C13_Witness ==
  LET gc == SelectSeq(chatCalls, IsGapsCall)
  IN  /\ pc = "done"
      /\ Len(searchCalls[1].result) = 2
      /\ searchCalls[1].result[1].abstract = Absent
      /\ Len(gc) = 1
      /\ gc[1].returned
      /\ gc[1].arg = << "", "A1" >>

\* ----------------------------------------------------------------------- C14

\* A Document of this title and url is in the result of a search that has
\* returned.
ReturnedBySearch(title, url) ==
  \E j \in 1..Len(searchCalls) :
    /\ searchCalls[j].returned
    /\ \E h \in 1..Len(searchCalls[j].result) :
         /\ searchCalls[j].result[h].title = title
         /\ searchCalls[j].result[h].url = url

\* C14: at every moment of a run, every Document the Report cites, in a
\* summary section or among the Opposing Viewpoints, is a Document that a
\* search of this run has returned before.
C14_NoFabricatedCitation ==
  /\ \A j \in 1..Len(report) :
       /\ report[j].kind = "paper" =>
            /\ searchCalls[1].returned
            /\ \E h \in 1..Len(searchCalls[1].result) :
                 /\ searchCalls[1].result[h].title = report[j].title
                 /\ searchCalls[1].result[h].authors = report[j].authors
                 /\ searchCalls[1].result[h].url = report[j].url
       /\ report[j].kind = "opposing" =>
            \A h \in 1..Len(report[j].entries) :
              ReturnedBySearch(report[j].entries[h].title, report[j].entries[h].url)
  /\ \A j \in 1..Len(found) : ReturnedBySearch(found[j].title, found[j].url)
  /\ Len(papers) > 0 => (searchCalls[1].returned /\ papers = searchCalls[1].result)

\* A completed Report with a summary section and two Opposing Viewpoints.
C14_Witness ==
  /\ pc = "done"
  /\ \E j \in 1..Len(report) : report[j].kind = "paper"
  /\ report[Len(report)].kind = "opposing"
  /\ Len(report[Len(report)].entries) >= 2

\* ----------------------------------------------------------------------- C15

\* A search, its retries included, or a completion is awaited.
SearchOutstanding == sp.state \in {"request", "delay"}

ChatOutstanding == chat.state = "request"

\* The number of Documents with an abstract among ps.
WithAbstract(ps) == Cardinality({j \in 1..Len(ps) : HasAbstract(ps[j])})

\* The completion number j of a run in which n Documents have an abstract:
\* the summarize calls first, then discoverGaps, then the keyword call.
ExpectedChatFn(j, n) ==
  IF j <= n THEN "summarizeAbstract"
  ELSE IF j = n + 1 THEN "discoverGaps" ELSE "devilAdvocate"

\* C15: in a generateReview run at most one search or completion is awaited
\* at any moment, every earlier call has returned, and the calls come in the
\* order: the initial search, the summarize calls in ranking order, then
\* discoverGaps once every section is written, then the keyword call, then
\* one search per keyword in keyword order once the keywords are there.
C15_OneCallAtATimeInOrder ==
  LET nS == Len(searchCalls)
      nC == Len(chatCalls)
  IN  /\ ~(SearchOutstanding /\ ChatOutstanding)
      /\ \A j \in 1..(nS - 1) : searchCalls[j].returned
      /\ \A j \in 1..(nC - 1) : chatCalls[j].returned
      /\ SearchOutstanding =>
           /\ ~searchCalls[nS].returned
           /\ nC > 0 => chatCalls[nC].returned
      /\ ChatOutstanding =>
           /\ ~chatCalls[nC].returned
           /\ searchCalls[nS].returned
      /\ nS > 0 =>
           /\ IsInitialSearch(searchCalls[1])
           /\ \A j \in 2..nS : IsKeywordSearch(searchCalls[j])
      /\ nC > 0 =>
           LET n == WithAbstract(papers)
               withAbstract == SelectSeq(papers, HasAbstract)
           IN  /\ searchCalls[1].returned
               /\ nC <= n + 2
               /\ \A j \in 1..nC :
                    /\ chatCalls[j].fn = ExpectedChatFn(j, n)
                    /\ j <= n => chatCalls[j].arg = << withAbstract[j].abstract >>
               /\ nC > n => Len(report) >= Len(papers) + 1
               /\ nC > n => \A j \in 2..(Len(papers) + 1) : IsPaperSection(report[j])
               /\ nS > 1 => (nC = n + 2 /\ chatCalls[nC].returned)
      /\ nS > 1 =>
           /\ nC > 0
           /\ nS - 1 <= Len(keywords)
           /\ \A j \in 2..nS : searchCalls[j].query = keywords[j - 1]

\* The second keyword search is waiting for its retry after a 429, after a
\* summarize call, discoverGaps and the keyword call have all returned.
C15_Witness ==
  /\ pc = "opposing"
  /\ sp.state = "delay"
  /\ k = 2
  /\ Len(searchCalls) = 3
  /\ Len(chatCalls) >= 3
  /\ chatCalls[1].fn = "summarizeAbstract"
  /\ chat.state = "none"

\* ----------------------------------------------------------------------- C16

HasResult(c) == Len(c.result) > 0

\* C16: in a completed Report, step 4 made exactly one search(keyword, 1) per
\* keyword, 3 keywords at most, in keyword order, and the Opposing Viewpoints
\* list the title and url of the first Document of every search that returned
\* a Document, in keyword order, and nothing for a search that returned none:
\* between 0 and 3 entries.
C16_OneEntryPerFruitfulKeyword ==
  pc = "done" =>
    LET searches == SelectSeq(searchCalls, IsKeywordSearch)
        fruitful == SelectSeq(searches, HasResult)
        entries == report[Len(report)].entries
    IN  /\ Len(keywords) <= OpposingLimit
        /\ Len(searches) = Len(keywords)
        /\ \A j \in 1..Len(searches) :
             /\ searches[j].query = keywords[j]
             /\ searches[j].limit = 1
             /\ searches[j].returned
        /\ report[Len(report)].kind = "opposing"
        /\ Len(entries) = Len(fruitful)
        /\ Len(entries) \in 0..OpposingLimit
        /\ \A j \in 1..Len(entries) :
             /\ entries[j].title = fruitful[j].result[1].title
             /\ entries[j].url = fruitful[j].result[1].url
        /\ \A j \in 1..Len(report) - 1 : report[j].kind # "opposing"

\* Three keyword searches of which the second returned nothing and the other
\* two returned different Documents: two entries, in keyword order.
C16_Witness ==
  LET searches == SelectSeq(searchCalls, IsKeywordSearch)
  IN  /\ pc = "done"
      /\ Len(searches) = 3
      /\ Len(searches[1].result) = 1
      /\ Len(searches[2].result) = 0
      /\ Len(searches[3].result) = 1
      /\ searches[1].result[1].title # searches[3].result[1].title
      /\ Len(report[Len(report)].entries) = 2

\* ----------------------------------------------------------------------- C18

RECURSIVE SumSeq(_)
SumSeq(q) == IF q = << >> THEN 0 ELSE q[1] + SumSeq(Tail(q))

\* The failure fn raised carries the status 401.
IsAuthFailure(out) == ~out.ok /\ out.status = 401

\* C18: the wait after the failed attempt number j of retryWithBackoff is
\* 2^j seconds; the final failed attempt and a failure of status 401 are
\* followed by no wait; a call that failed on all maxRetries attempts has
\* waited 2^maxRetries - 2 seconds in all.
C18_ExponentialWaits ==
  rState \notin {"off", "start"} =>
    /\ \A j \in 1..Len(rDelays) : rDelays[j] = (2 ^ j) * 1000
    /\ Len(rDelays) = rAttempt - 1
    /\ \A j \in 1..Len(rDelays) : ~rOutcomes[j].ok /\ ~IsAuthFailure(rOutcomes[j])
    /\ rState = "waiting" =>
         /\ rPending = (2 ^ rAttempt) * 1000
         /\ rAttempt < rMax
         /\ Len(rOutcomes) = rAttempt
         /\ ~IsAuthFailure(rOutcomes[rAttempt])
    /\ rState = "thrown" =>
         /\ Len(rDelays) = Len(rOutcomes) - 1
         /\ Len(rOutcomes) = rMax \/ IsAuthFailure(rOutcomes[Len(rOutcomes)])
         /\ Len(rOutcomes) = rMax => SumSeq(rDelays) = ((2 ^ rMax) - 2) * 1000
    /\ (Len(rOutcomes) > 0 /\ IsAuthFailure(rOutcomes[Len(rOutcomes)])) =>
         rState = "thrown"

\* The default three attempts all failed: 2 s and 4 s were waited, 6 s in all.
C18_Witness ==
  /\ rMax = DefaultMaxRetries
  /\ rState = "thrown"
  /\ Len(rOutcomes) = 3
  /\ ~IsAuthFailure(rOutcomes[3])
  /\ rDelays = << 2000, 4000 >>
  /\ SumSeq(rDelays) = 6000

\* ----------------------------------------------------------------------- C19

\* C19: retryWithBackoff called with maxRetries <= 0 has, once it ran, never
\* invoked fn, waited for nothing and thrown nothing: it has returned, and
\* what it returned is undefined.
C19_NoAttemptReturnsUndefined ==
  (rMax <= 0 /\ rState \notin {"off", "start"}) =>
    /\ rState = "returned"
    /\ rInvocations = 0
    /\ rOutcomes = << >>
    /\ rAnswers = << >>
    /\ rDelays = << >>
    /\ rPending = 0
    /\ rResult.kind = "value"
    /\ rResult.val = Undefined
    /\ \E out \in OperationOutcomes :
         /\ out.ok
         /\ rResult = [kind |-> "value", val |-> out.value,
                       err |-> [status |-> 0, message |-> << >>]]

\* retryWithBackoff(fn, 0) has returned.
C19_Witness ==
  /\ rMax = 0
  /\ rState = "returned"
  /\ rInvocations = 0
  /\ rResult.val = Undefined

\* ----------------------------------------------------------------------- C20

\* C20: a handler that has ended has sent one response, no more, whatever the
\* path: no data or file, a parse failure, an unsupported format, a failed
\* validation, a failed completion, a success; a handler still running has
\* sent none. A success response is sent only when one completion call was
\* made and has returned a result.
C20_ExactlyOneResponse ==
  hpc # "off" =>
    /\ hpc \in {"start", "analysis", "done"}
    /\ hpc = "done" => Len(responses) = 1
    /\ hpc # "done" => responses = << >>
    /\ completions <= 1
    /\ Len(answers) <= completions
    /\ \A j \in 1..Len(responses) :
         responses[j].success =>
           /\ responses[j].status = 200
           /\ completions = 1
           /\ Len(answers) = 1
           /\ answers[1].ok
           /\ AnalyzeFinancialData(answers[1]).ok

\* The upload handler has answered a request whose completion failed: one
\* response, the 500 of the catch block.
C20_Witness ==
  /\ handler = "analyzeFile"
  /\ hpc = "done"
  /\ completions = 1
  /\ Len(answers) = 1
  /\ ~AnalyzeFinancialData(answers[1]).ok
  /\ Len(responses) = 1
  /\ responses[1].status = 500

\* ----------------------------------------------------------------------- C17

\* searchPapers has ended: it returned Documents or threw a failure.
SearchEnded == pc \in {"done", "failed"}

\* The call waits for the end of a rate-limit delay.
SearchDelayed == sp.state = "delay"

\* The step on which the provider answers the GET with a 429.
AnswersRateLimit == sp.state = "request" /\ sp'.state = "delay"

\* C17: searchPapers has no bound on its retries and no way out of them. A
\* 429 answer never ends the call, whatever the number of retries before it:
\* the call ends only on an answer that is not a 429, with the Documents or
\* with that failure. So the call ends if the provider stops answering 429
\* from some moment on, and it never ends if the provider answers 429 for
\* ever.
C17_EndsIffProviderRelents ==
  /\ [](pc = "failed" => /\ sp.state = "thrown"
                         /\ outcome.kind = "error"
                         /\ ~IsRateLimit(outcome.err))
  /\ [](pc = "done" => sp.state = "returned" /\ outcome.val = sp.result)
  /\ [](SearchDelayed => ~SearchEnded)
  /\ [][SearchDelayed => sp'.state = "request"]_vars
  /\ [][sp.state = "request" => sp'.state \in {"delay", "returned", "thrown"}]_vars
  /\ ([]<><<AnswersRateLimit>>_vars) \/ <>SearchEnded
  /\ ([]<><<AnswersRateLimit>>_vars) => []~SearchEnded

\* The call has been retried MaxRateLimits times, as many as are counted,
\* and its GET is out again.
C17_Witness ==
  /\ action = "searchPapers"
  /\ sp.state = "request"
  /\ Len(sp.delays) = MaxRateLimits
  /\ Len(sp.errors) = MaxRateLimits
  /\ \A j \in 1..Len(sp.errors) : IsRateLimit(sp.errors[j])
  /\ ~SearchEnded

====
